---- MODULE Spec2Model ----
(***************************************************************************)
(* SkillVault (skillvault.py): the SQLite-backed storage layer             *)
(* (SkillDatabase) and the interactive menu loop (SkillTracker.run).       *)
(*                                                                         *)
(* The connection's view of the two tables (db) is kept apart from what    *)
(* has been committed (disk): Python's sqlite3 opens a transaction before  *)
(* the first INSERT/DELETE and the code neither rolls back nor closes it   *)
(* when a statement or the commit raises sqlite3.Error.                    *)
(*                                                                         *)
(* Numbers typed at a prompt are sequences of characters parsed by int();  *)
(* hours and percentages are kept in hundredths (750 stands for 7.50).     *)
(* Integer inputs stay inside SQLite's 64-bit INTEGER range.               *)
(***************************************************************************)
EXTENDS Integers, Sequences, FiniteSets, TLC

VARIABLES
    handle,     \* outcome of SkillDatabase.__init__: "ready", "no_schema", "no_conn"
    db,         \* the tables as self.conn sees them (open transaction included)
    disk,       \* the tables as last committed
    pc,         \* SkillTracker.run: "menu", "exited", or "raised" (exception left run)
    out,        \* what the last loop iteration printed after the menu
    last,       \* the last iteration: choice, prompt whose input int() rejected, storage call made, its outcome
    faults,     \* storage failures injected so far
    everSkillIds,    \* history: every id an INSERT INTO skills has assigned
    everSessionIds,  \* history: every id an INSERT INTO sessions has assigned
    fresh       \* history: ids of skills added with no session logged since

vars == <<handle, db, disk, pc, out, last, faults, everSkillIds, everSessionIds, fresh>>

----------------------------------------------------------------------------
(* Bounds *)
MaxSkills == 2      \* INSERTs into skills per run
MaxSessions == 2    \* INSERTs into sessions per run
MaxFaults == 1      \* storage failures per run

(* Program constants *)
MinutesPerHour == 60
Percent == 100
Places == 2

Today == "2026-11-05"   \* datetime.now().strftime('%Y-%m-%d')

----------------------------------------------------------------------------
(* Console input *)

\* what the user may type at the prompts of "Add a New Skill": name, category, target
SkillForms == { <<"Piano", "Creative", <<"1","0">> >>,
                <<"Go", "Tech", <<"0">> >> }

\* ... of "Log Practice Session": skill id, duration, notes, date
SessionForms == { << <<"1">>, <<"1","5","0">>, "scales", "" >>,
                  << <<"1">>, <<" ","3","0","0">>, "", "2024-01-05" >>,
                  << <<"2">>, <<"1","5","0">>, "scales", "" >> }

\* ... of "Delete Skill"
DeleteIdInputs == { <<"1">>, <<"2">>, <<"-","1">> }

\* ... and, at a numeric prompt, text that is no integer literal
BadNumbers == { <<>>, <<"1",".","5">>, <<"1","_">> }

OtherChoices == { "6" }

----------------------------------------------------------------------------
(* int(str): Python's integer literal parser *)

DigitChars == <<"0","1","2","3","4","5","6","7","8","9">>
DigitSet == { DigitChars[i] : i \in 1..10 }
DigitVal(c) == (CHOOSE i \in 1..10 : DigitChars[i] = c) - 1

RECURSIVE LStrip(_)
LStrip(s) == IF s # <<>> /\ Head(s) = " " THEN LStrip(Tail(s)) ELSE s

RECURSIVE RStrip(_)
RStrip(s) == IF s # <<>> /\ s[Len(s)] = " " THEN RStrip(SubSeq(s, 1, Len(s) - 1)) ELSE s

Strip(s) == RStrip(LStrip(s))

Unsigned(t) == IF t # <<>> /\ Head(t) \in {"+", "-"} THEN Tail(t) ELSE t

\* digits, with single underscores allowed between digits
IsLiteral(b) ==
    /\ b # <<>>
    /\ \A i \in 1..Len(b) :
        \/ b[i] \in DigitSet
        \/ /\ b[i] = "_"
           /\ 1 < i /\ i < Len(b)
           /\ b[i-1] \in DigitSet /\ b[i+1] \in DigitSet

RECURSIVE Magnitude(_, _)
Magnitude(b, acc) ==
    IF b = <<>> THEN acc
    ELSE IF Head(b) = "_" THEN Magnitude(Tail(b), acc)
    ELSE Magnitude(Tail(b), acc * 10 + DigitVal(Head(b)))

\* int() as a lenient parser would have it: the leading digits count, the rest is dropped
intLenient(s) ==
    LET t == Strip(s)
    IN  IF t # <<>> /\ Head(t) \in DigitSet
        THEN [ok |-> TRUE, val |-> DigitVal(Head(t))]
        ELSE [ok |-> FALSE, val |-> 0]

\* [ok |-> FALSE] stands for ValueError
int(s) ==
    LET t == Strip(s)
        b == Unsigned(t)
    IN  IF ~IsLiteral(b) THEN [ok |-> FALSE, val |-> 0]
        ELSE [ok |-> TRUE,
              val |-> IF Head(t) = "-" THEN 0 - Magnitude(b, 0) ELSE Magnitude(b, 0)]

----------------------------------------------------------------------------
(* Domain records *)

Skill(id, name, category, target_hours) ==
    [id |-> id, name |-> name, category |-> category, target_hours |-> target_hours]

PracticeSession(id, skill_id, duration_minutes, notes, date) ==
    [id |-> id, skill_id |-> skill_id, duration_minutes |-> duration_minutes,
     notes |-> notes, date |-> date]

None == 0   \* the id of a record not yet persisted

----------------------------------------------------------------------------
(* Storage: tables, AUTOINCREMENT, transactions *)

EmptyTables == [skills |-> {}, sessions |-> {}, seqSkills |-> 0, seqSessions |-> 0]

Max(a, b) == IF a >= b THEN a ELSE b

MaxId(rows) == IF rows = {} THEN 0 ELSE CHOOSE m \in {r.id : r \in rows} : \A r \in rows : r.id <= m

\* INTEGER PRIMARY KEY without AUTOINCREMENT: one more than the largest id now in the table
NextIdRowidOnly(rows, seq) == MaxId(rows) + 1

\* INTEGER PRIMARY KEY AUTOINCREMENT: one more than the largest id the table ever held
NextId(rows, seq) == Max(MaxId(rows), seq) + 1

\* the storage environment: which call of an operation fails (0: none; i: the i-th
\* statement; one past the last statement: the commit), and whether SQLite then
\* rolled the whole open transaction back or undid only the failing call
NoFault == [at |-> 0, rollback |-> FALSE]
FaultsAt(n) == { [at |-> i, rollback |-> r] : i \in 1..n, r \in BOOLEAN }

\* a store is the pair [db, disk]; what a storage call hands back is the store it
\* leaves, what it printed, the exception that left it ("" for a normal return) and
\* the row id its INSERT assigned (None when no INSERT ran), the rowcount of each
\* statement that ran, and the value it returned
Commit(st) == [db |-> st.db, disk |-> st.db]
Rollback(st) == [db |-> st.disk, disk |-> st.disk]
Failed(st, f) == IF f.rollback THEN Rollback(st) ELSE st

Returned(st, printed, id, rows) ==
    [db |-> st.db, disk |-> st.disk, printed |-> printed, raised |-> "", id |-> id, rows |-> rows,
     value |-> <<>>]
Raised(st, exc) ==
    [db |-> st.db, disk |-> st.disk, printed |-> "", raised |-> exc, id |-> None, rows |-> <<>>,
     value |-> <<>>]

InsertSkill(st, skill) ==
    LET id == NextId(st.db.skills, st.db.seqSkills)
    IN  [st EXCEPT !.db.skills = @ \cup {Skill(id, skill.name, skill.category, skill.target_hours)},
                   !.db.seqSkills = id]

InsertSession(st, session) ==
    LET id == NextId(st.db.sessions, st.db.seqSessions)
    IN  [st EXCEPT !.db.sessions = @ \cup {PracticeSession(id, session.skill_id,
                                               session.duration_minutes, session.notes, session.date)},
                   !.db.seqSessions = id]

\* DELETE FROM sessions left out
DeleteSessionsForgotten(st, skill_id) == st

\* DELETE FROM sessions WHERE id=?
DeleteSessionsById(st, skill_id) ==
    [st EXCEPT !.db.sessions = {x \in @ : x.id # skill_id}]

DeleteSessionsOf(st, skill_id) ==
    [st EXCEPT !.db.sessions = {x \in @ : x.skill_id # skill_id}]

DeleteSkillRow(st, skill_id) ==
    [st EXCEPT !.db.skills = {s \in @ : s.id # skill_id}]

----------------------------------------------------------------------------
(* SkillDatabase *)

add_skill(h, st, skill, f) ==
    IF h = "no_conn" THEN Raised(st, "AttributeError")
    ELSE IF h = "no_schema" \/ f.at = 1
    THEN Returned(Failed(st, f), "Failed to add skill", None, <<>>)
    ELSE LET st1 == InsertSkill(st, skill)
         IN  IF f.at = 2
             THEN Returned(Failed(st1, f), "Failed to add skill", st1.db.seqSkills, <<1>>)
             ELSE Returned(Commit(st1), "", st1.db.seqSkills, <<1>>)

\* log_session with the foreign key enforced
log_sessionChecked(h, st, session, f) ==
    IF h = "no_conn" THEN Raised(st, "AttributeError")
    ELSE IF h = "no_schema" \/ f.at = 1 \/ session.skill_id \notin {s.id : s \in st.db.skills}
    THEN Returned(Failed(st, f), "Failed to log session", None, <<>>)
    ELSE LET st1 == InsertSession(st, session)
         IN  IF f.at = 2
             THEN Returned(Failed(st1, f), "Failed to log session", st1.db.seqSessions, <<1>>)
             ELSE Returned(Commit(st1), "", st1.db.seqSessions, <<1>>)

log_session(h, st, session, f) ==
    IF h = "no_conn" THEN Raised(st, "AttributeError")
    ELSE IF h = "no_schema" \/ f.at = 1
    THEN Returned(Failed(st, f), "Failed to log session", None, <<>>)
    ELSE LET st1 == InsertSession(st, session)
         IN  IF f.at = 2
             THEN Returned(Failed(st1, f), "Failed to log session", st1.db.seqSessions, <<1>>)
             ELSE Returned(Commit(st1), "", st1.db.seqSessions, <<1>>)

delete_skill(h, st, skill_id, f) ==
    IF h = "no_conn" THEN Raised(st, "AttributeError")
    ELSE IF h = "no_schema" \/ f.at = 1
    THEN Returned(Failed(st, f), "Failed to delete skill", None, <<>>)
    ELSE LET st1 == DeleteSessionsOf(st, skill_id)
             n1 == Cardinality(st.db.sessions) - Cardinality(st1.db.sessions)
         IN  IF f.at = 2
             THEN Returned(Failed(st1, f), "Failed to delete skill", None, <<n1>>)
             ELSE LET st2 == DeleteSkillRow(st1, skill_id)
                      n2 == Cardinality(st1.db.skills) - Cardinality(st2.db.skills)
                  IN  IF f.at = 3
                      THEN Returned(Failed(st2, f), "Failed to delete skill", None, <<n1, n2>>)
                      ELSE Returned(Commit(st2), "", None, <<n1, n2>>)

\* a column value is <<v>>, and <<>> when it is NULL
NULL == <<>>
IFNULL(v, dflt) == IF v = NULL THEN dflt ELSE v[1]

\* FROM skills s JOIN sessions sess ON s.id = sess.skill_id
InnerJoin(t) ==
    { [s |-> s, sess_id |-> <<x.id>>, duration_minutes |-> <<x.duration_minutes>>]
      : <<s, x>> \in {q \in t.skills \X t.sessions : q[1].id = q[2].skill_id} }

\* FROM skills s LEFT JOIN sessions sess ON s.id = sess.id
LeftJoinOnSessionId(t) ==
    UNION { LET matching == {x \in t.sessions : x.id = s.id}
            IN  IF matching = {}
                THEN { [s |-> s, sess_id |-> NULL, duration_minutes |-> NULL] }
                ELSE { [s |-> s, sess_id |-> <<x.id>>, duration_minutes |-> <<x.duration_minutes>>]
                       : x \in matching }
          : s \in t.skills }

\* FROM skills s LEFT JOIN sessions sess ON s.id = sess.skill_id
LeftJoin(t) ==
    UNION { LET matching == {x \in t.sessions : x.skill_id = s.id}
            IN  IF matching = {}
                THEN { [s |-> s, sess_id |-> NULL, duration_minutes |-> NULL] }
                ELSE { [s |-> s, sess_id |-> <<x.id>>, duration_minutes |-> <<x.duration_minutes>>]
                       : x \in matching }
          : s \in t.skills }

RECURSIVE SUM(_)
SUM(rows) ==
    IF rows = {} THEN NULL
    ELSE LET r == CHOOSE x \in rows : TRUE
             rest == SUM(rows \ {r})
         IN  IF r.duration_minutes = NULL THEN rest
             ELSE <<r.duration_minutes[1] + IFNULL(rest, 0)>>

\* GROUP BY s.id: one result row per skill id, in ascending id order;
\* total_hours is kept as the minutes it is the sixtieth of
RECURSIVE GroupBy(_, _)
GroupBy(joined, ids) ==
    IF ids = {} THEN <<>>
    ELSE LET id == CHOOSE i \in ids : \A j \in ids : i <= j
             group == {r \in joined : r.s.id = id}
             s == (CHOOSE r \in group : TRUE).s
         IN  << [id |-> id, name |-> s.name, target_hours |-> s.target_hours,
                 minutes |-> IFNULL(SUM(group), 0)] >>
             \o GroupBy(joined, ids \ {id})

Select(t) == GroupBy(LeftJoin(t), {r.s.id : r \in LeftJoin(t)})

\* n/d rounded to the nearest integer, ties to the even one
RoundDiv(n, d) ==
    IF d < 0 THEN LET q == (0 - n) \div (0 - d)
                      r == (0 - n) % (0 - d)
                  IN  IF 2 * r < (0 - d) THEN q
                      ELSE IF 2 * r > (0 - d) THEN q + 1
                      ELSE IF q % 2 = 0 THEN q ELSE q + 1
    ELSE LET q == n \div d
             r == n % d
         IN  IF 2 * r < d THEN q
             ELSE IF 2 * r > d THEN q + 1
             ELSE IF q % 2 = 0 THEN q ELSE q + 1

Scale == 10 ^ Places

\* round(minutes/60.0, 2) and round((minutes/60.0 / target) * 100, 2), in hundredths
Entry(r) ==
    [Skill |-> r.name,
     TargetHours |-> r.target_hours,
     TotalPracticed |-> RoundDiv(r.minutes * Scale, MinutesPerHour),
     Progress |-> IF r.target_hours # 0
                  THEN RoundDiv(r.minutes * Percent * Scale, MinutesPerHour * r.target_hours)
                  ELSE 0]

progress(t) == [i \in 1..Len(Select(t)) |-> Entry(Select(t)[i])]

get_progress(h, st, f) ==
    IF h = "no_conn" THEN Raised(st, "AttributeError")
    ELSE IF h = "no_schema" \/ f.at = 1 THEN Raised(Failed(st, f), "sqlite3.Error")
    ELSE [Returned(st, "", None, <<Len(progress(st.db))>>) EXCEPT !.value = progress(st.db)]

----------------------------------------------------------------------------
(* SkillTracker.run: one action per menu choice, each a whole loop iteration *)

Store == [db |-> db, disk |-> disk]

\* the failures the storage may produce in a call of n statements and a commit
Faults(env, n) == IF env /\ faults < MaxFaults THEN {NoFault} \cup FaultsAt(n + 1) ELSE {NoFault}

Printed(diag, lines) == [diag |-> diag, progress |-> lines]

Iteration(choice, rejected, op, args, f, res) ==
    [choice |-> choice, rejected |-> rejected, op |-> op, args |-> args, failed |-> f.at # 0,
     raised |-> res.raised, id |-> res.id, rows |-> res.rows]

NoCall == [raised |-> "", id |-> None, rows |-> <<>>]

\* int() raised ValueError on the text typed at a prompt: the diagnostic is printed
\* and nothing else happens
Rejected(choice, prompt, diag) ==
    /\ out' = Printed(diag, <<>>)
    /\ last' = Iteration(choice, prompt, "", <<>>, NoFault, NoCall)
    /\ pc' = "menu"
    /\ UNCHANGED <<handle, db, disk, faults, everSkillIds, everSessionIds, fresh>>

\* a storage call was made and left the store as res says
Called(choice, op, args, f, res) ==
    /\ db' = res.db
    /\ disk' = res.disk
    /\ last' = Iteration(choice, "", op, args, f, res)
    /\ pc' = IF res.raised = "" THEN "menu" ELSE "raised"
    /\ faults' = IF f.at = 0 THEN faults ELSE faults + 1
    /\ UNCHANGED handle

Present(ids, t) == ids \cap {s.id : s \in t.skills}

\* choice '1' with name, category and target typed as given
AddSkillWith(env, name, category, target) ==
    LET target_hours == int(target)
        skill == Skill(None, name, category, target_hours.val)
    IN  IF ~target_hours.ok
        THEN Rejected("1", "Target Hours: ", "Invalid input for target hours.")
        ELSE \E f \in Faults(env, 1) :
             LET res == add_skill(handle, Store, skill, f)
             IN  /\ db.seqSkills < MaxSkills
                 /\ Called("1", "add_skill", <<skill>>, f, res)
                 /\ out' = Printed(res.printed, <<>>)
                 /\ everSkillIds' = IF res.id = None THEN everSkillIds
                                     ELSE everSkillIds \cup {res.id}
                 /\ fresh' = Present(IF res.id = None THEN fresh ELSE fresh \cup {res.id}, res.db)
                 /\ UNCHANGED everSessionIds

Choice1(env) ==
    /\ pc = "menu"
    /\ \E form \in SkillForms : \E target \in {form[3]} \cup BadNumbers :
         AddSkillWith(env, form[1], form[2], target)

\* choice '2' with skill id, duration, notes and date typed as given
LogSessionWith(env, id, dur, notes, typed) ==
    LET skill_id == int(id)
        duration == int(dur)
        date == IF typed = "" THEN Today ELSE typed
        session == PracticeSession(None, skill_id.val, duration.val, notes, date)
    IN  IF ~skill_id.ok \/ ~duration.ok
        THEN Rejected("2", IF ~skill_id.ok THEN "Skill ID: " ELSE "Duration (in minutes): ",
                      "Invalid input. Please enter numbers where required.")
        ELSE \E f \in Faults(env, 1) :
             LET res == log_session(handle, Store, session, f)
             IN  /\ db.seqSessions < MaxSessions
                 /\ Called("2", "log_session", <<session>>, f, res)
                 /\ out' = Printed(res.printed, <<>>)
                 /\ everSessionIds' = IF res.id = None THEN everSessionIds
                                       ELSE everSessionIds \cup {res.id}
                 /\ fresh' = IF res.id = None THEN Present(fresh, res.db) ELSE {}
                 /\ UNCHANGED everSkillIds

Choice2(env) ==
    /\ pc = "menu"
    /\ \/ \E id \in BadNumbers : LogSessionWith(env, id, <<>>, "", "")
       \/ \E form \in SessionForms : \E dur \in {form[2]} \cup BadNumbers :
            LogSessionWith(env, form[1], dur, form[3], form[4])

Choice3(env) ==
    /\ pc = "menu"
    /\ \E f \in Faults(env, 0) :
         LET res == get_progress(handle, Store, f)
         IN  /\ Called("3", "get_progress", <<>>, f, res)
             /\ out' = Printed("", res.value)
             /\ fresh' = Present(fresh, res.db)
             /\ UNCHANGED <<everSkillIds, everSessionIds>>

\* choice '4' with the skill id typed as given
DeleteSkillWith(env, id) ==
    LET skill_id == int(id)
    IN  IF ~skill_id.ok
        THEN Rejected("4", "Enter Skill ID to delete: ", "Invalid skill ID.")
        ELSE \E f \in Faults(env, 2) :
             LET res == delete_skill(handle, Store, skill_id.val, f)
             IN  /\ Called("4", "delete_skill", <<skill_id.val>>, f, res)
                 /\ out' = Printed(res.printed, <<>>)
                 /\ fresh' = Present(fresh, res.db)
                 /\ UNCHANGED <<everSkillIds, everSessionIds>>

Choice4(env) ==
    /\ pc = "menu"
    /\ \E id \in DeleteIdInputs \cup BadNumbers : DeleteSkillWith(env, id)

Choice5 ==
    /\ pc = "menu"
    /\ pc' = "exited"
    /\ out' = Printed("", <<>>)
    /\ last' = Iteration("5", "", "", <<>>, NoFault, NoCall)
    /\ UNCHANGED <<handle, db, disk, faults, everSkillIds, everSessionIds, fresh>>

ChoiceOther ==
    /\ pc = "menu"
    /\ \E choice \in OtherChoices :
         /\ out' = Printed("Invalid choice.", <<>>)
         /\ last' = Iteration(choice, "", "", <<>>, NoFault, NoCall)
    /\ pc' = "menu"
    /\ UNCHANGED <<handle, db, disk, faults, everSkillIds, everSessionIds, fresh>>

----------------------------------------------------------------------------
(* Specifications *)

Start ==
    /\ db = EmptyTables
    /\ disk = EmptyTables
    /\ pc = "menu"
    /\ out = Printed("", <<>>)
    /\ last = Iteration("", "", "", <<>>, NoFault, NoCall)
    /\ faults = 0
    /\ everSkillIds = {}
    /\ everSessionIds = {}
    /\ fresh = {}

\* a fresh database file; construction may have failed to connect ("no_conn": self.conn
\* was never set) or to create the tables ("no_schema")
Init == Start /\ handle \in {"ready", "no_schema", "no_conn"}

Next == Choice1(TRUE) \/ Choice2(TRUE) \/ Choice3(TRUE) \/ Choice4(TRUE) \/ Choice5 \/ ChoiceOther

Spec == Init /\ [][Next]_vars

\* the same program on a storage that never fails
InitReliable == Start /\ handle = "ready"

NextReliable == Choice1(FALSE) \/ Choice2(FALSE) \/ Choice3(FALSE) \/ Choice4(FALSE) \/ Choice5 \/ ChoiceOther

SpecReliable == InitReliable /\ [][NextReliable]_vars

----------------------------------------------------------------------------
(* Properties *)

SkillIds(t) == {s.id : s \in t.skills}
SessionsOf(t, k) == {x \in t.sessions : x.skill_id = k}

RECURSIVE TotalMinutes(_)
TotalMinutes(S) ==
    IF S = {} THEN 0
    ELSE LET x == CHOOSE y \in S : \A z \in S : y.id <= z.id
         IN  x.duration_minutes + TotalMinutes(S \ {x})

Abs(n) == IF n < 0 THEN 0 - n ELSE n

\* v hundredths is n/d rounded to two decimals
IsRounded(v, n, d) == 2 * Abs(v * d - n * 100) <= Abs(d)

\* entry e of get_progress reports skill row s of store t
Reports(e, s, t) ==
    LET minutes == TotalMinutes(SessionsOf(t, s.id))
    IN  /\ e.Skill = s.name
        /\ e.TargetHours = s.target_hours
        /\ IsRounded(e.TotalPracticed, minutes, 60)
        /\ IF s.target_hours # 0
           THEN IsRounded(e.Progress, minutes * 100, 60 * s.target_hours)
           ELSE e.Progress = 0

\* the last iteration called op, and the storage did not fail in it
Succeeded(l, o, op) == l.op = op /\ ~l.failed /\ l.raised = "" /\ o.diag = ""

(* C1: after delete_skill(k) completes without storage error, no skill row with id k
   and no session row with skill_id k exists, every other skill row and session row
   is unchanged, and get_progress has no entry for the deleted skill. *)
C1_DeleteRemovesSkillAndItsSessions ==
    [][ Succeeded(last', out', "delete_skill") =>
        LET k == last'.args[1]
        IN  /\ k \notin SkillIds(db')
            /\ SessionsOf(db', k) = {}
            /\ db'.skills \subseteq db.skills
            /\ db'.sessions \subseteq db.sessions
            /\ \A s \in db.skills : s.id # k => s \in db'.skills
            /\ \A x \in db.sessions : x.skill_id # k => x \in db'.sessions
            /\ Len(progress(db')) = Cardinality(db'.skills)
            /\ \A i \in 1..Len(Select(db')) : Select(db')[i].id # k
            /\ disk' = db'
      ]_vars

\* a delete has just removed a skill row and a session of it, and another skill and
\* a session of that other skill are still there
C1_Witness ==
    /\ Succeeded(last, out, "delete_skill")
    /\ last.rows[1] >= 1 /\ last.rows[2] = 1
    /\ \E s \in db.skills : SessionsOf(db, s.id) # {}

(* C2: get_progress returns exactly one entry per skill row in the store, skills with
   no session included, carrying the skill's name and target_hours, total practiced =
   (sum of duration_minutes of the sessions with that skill_id)/60 and progress% =
   practiced/target_hours*100 when target_hours is non-zero, both to two decimals;
   target 10 with sessions of 150 and 300 minutes gives 7.50 hours and 75.0%. *)
C2_ProgressPerSkill ==
    LET p == progress(db)
    IN  /\ Len(p) = Cardinality(db.skills)
        /\ \E f \in [db.skills -> 1..Len(p)] :
             /\ \A s1, s2 \in db.skills : f[s1] = f[s2] => s1 = s2
             /\ \A s \in db.skills :
                  /\ Reports(p[f[s]], s, db)
                  /\ ( /\ s.target_hours = 10
                       /\ {x.duration_minutes : x \in SessionsOf(db, s.id)} = {150, 300}
                       /\ Cardinality(SessionsOf(db, s.id)) = 2 )
                     => p[f[s]].TotalPracticed = 750 /\ p[f[s]].Progress = 7500

\* get_progress has just reported 7.50 hours and 75% for one skill and zero hours for
\* another
C2_Witness ==
    /\ Succeeded(last, out, "get_progress")
    /\ \E i, j \in 1..Len(out.progress) :
         /\ out.progress[i].TargetHours = 10
         /\ out.progress[i].TotalPracticed = 750
         /\ out.progress[i].Progress = 7500
         /\ out.progress[i].Skill = "Piano"
         /\ out.progress[j].TotalPracticed = 0
         /\ out.progress[j].Skill = "Go"

\* the entry get_progress has for the skill with id k
EntryOf(t, k) == Entry(CHOOSE r \in {Select(t)[i] : i \in 1..Len(Select(t))} : r.id = k)

(* C3 as stated: for every skill added, while no session has been logged since it was
   added, whatever operations preceded the add, get_progress reports total practiced
   0 and progress% 0 for it. *)
C3_Original ==
    (faults = 0 /\ handle = "ready") =>
        \A k \in fresh : EntryOf(db, k).TotalPracticed = 0 /\ EntryOf(db, k).Progress = 0

(* C3 amended: for every skill added, while no session has been logged since it was
   added and no session row logged earlier carries its id, get_progress reports total
   practiced 0 and progress% 0 for it, also when target_hours = 0. *)
C3_ZeroBeforeAnySession ==
    \A k \in fresh :
        SessionsOf(db, k) = {} =>
            EntryOf(db, k).TotalPracticed = 0 /\ EntryOf(db, k).Progress = 0

\* get_progress has just run with a target-0 skill added since the last session was
\* logged, that session being another skill's
C3_Witness ==
    /\ Succeeded(last, out, "get_progress")
    /\ \E x \in db.sessions : x.skill_id \in SkillIds(db)
    /\ \E s \in db.skills : s.id \in fresh /\ s.target_hours = 0 /\ SessionsOf(db, s.id) = {}

(* C4 as stated: delete_skill(k) for an id k that matches no skill row surfaces no
   error and leaves both tables exactly as they were. *)
C4_Original ==
    [][ ( /\ last'.op = "delete_skill"
          /\ faults' = 0 /\ handle = "ready"
          /\ last'.args[1] \notin SkillIds(db) )
        => ( /\ db'.skills = db.skills
             /\ db'.sessions = db.sessions
             /\ out'.diag = "" /\ last'.raised = "" )
      ]_vars

(* C4 amended: delete_skill(k) for an id k that matches no skill row and no session
   row's skill_id, when the storage does not fail, surfaces no error, affects zero
   rows in either delete and leaves both tables exactly as they were. *)
C4_DeleteOfUnknownIdIsNoOp ==
    [][ ( /\ last'.op = "delete_skill"
          /\ ~last'.failed /\ handle = "ready"
          /\ last'.args[1] \notin SkillIds(db)
          /\ SessionsOf(db, last'.args[1]) = {} )
        => ( /\ db'.skills = db.skills
             /\ db'.sessions = db.sessions
             /\ last'.rows = <<0, 0>>
             /\ out'.diag = "" /\ last'.raised = "" )
      ]_vars

\* a delete of an id that no row carries has just run on non-empty tables
C4_Witness ==
    /\ Succeeded(last, out, "delete_skill")
    /\ last.rows = <<0, 0>>
    /\ db.skills # {} /\ db.sessions # {}
    /\ last.args[1] \notin SkillIds(db)

(* C5: every id assigned by add_skill is greater than every skill id assigned earlier,
   ids of skills since deleted included, likewise for the session ids assigned by
   log_session, and no two rows of a table share an id. *)
C5_IdsNeverReused ==
    [][ /\ (last'.op = "add_skill" /\ last'.id # None /\ db'.skills # db.skills)
            => \A i \in everSkillIds : last'.id > i
        /\ (last'.op = "log_session" /\ last'.id # None /\ db'.sessions # db.sessions)
            => \A i \in everSessionIds : last'.id > i
        /\ \A s1, s2 \in db'.skills : s1.id = s2.id => s1 = s2
        /\ \A x1, x2 \in db'.sessions : x1.id = x2.id => x1 = x2
      ]_vars

\* a skill has just been added after the skill with the largest id was deleted
C5_Witness ==
    /\ last.op = "add_skill" /\ last.id # None
    /\ last.id \in SkillIds(db)
    /\ \E i \in everSkillIds : i \notin SkillIds(db) /\ i + 1 = last.id

(* C6: a non-integer value entered for target_hours (option 1), for skill_id or
   duration (option 2) or for skill_id (option 4) abandons the action before any
   storage operation: both tables are unchanged, a diagnostic is printed and control
   returns to the menu. *)
C6_NonIntegerInputReachesNoStorage ==
    [][ \A bad \in BadNumbers :
          ( \/ /\ last'.choice = "1"
               /\ \E form \in SkillForms : AddSkillWith(FALSE, form[1], form[2], bad)
            \/ /\ last'.choice = "2"
               /\ \E form \in SessionForms :
                     \/ LogSessionWith(FALSE, bad, form[2], form[3], form[4])
                     \/ LogSessionWith(FALSE, form[1], bad, form[3], form[4])
            \/ /\ last'.choice = "4"
               /\ DeleteSkillWith(FALSE, bad) )
          => ( /\ db' = db /\ disk' = disk
               /\ last'.op = ""
               /\ out'.diag \in { "Invalid input for target hours.",
                                  "Invalid input. Please enter numbers where required.",
                                  "Invalid skill ID." }
               /\ pc' = "menu" )
      ]_vars

\* a duration that is no integer has just been rejected, with rows in both tables
C6_Witness ==
    /\ last.choice = "2" /\ last.rejected = "Duration (in minutes): "
    /\ out.diag = "Invalid input. Please enter numbers where required."
    /\ db.skills # {} /\ db.sessions # {}
    /\ pc = "menu"

(* C7: none of add_skill, log_session, get_progress and delete_skill raises to its
   caller: a storage failure, or a missing connection after a failed construction, is
   caught inside the operation and the operation returns normally. *)
C7_NoOperationRaises ==
    last.op \in {"add_skill", "log_session", "get_progress", "delete_skill"} => last.raised = ""

(* C8: every choice other than '5' returns to the menu, whatever error its action
   hits; the loop ends only by choice '5' and never by an exception. *)
C8_LoopEndsOnlyByChoice5 ==
    /\ pc \in {"menu", "exited"}
    /\ pc = "exited" <=> last.choice = "5"

(* C9: delete_skill's two deletions are atomic: whatever gets committed, for a skill
   with sessions either the skill row and all its sessions are gone or all of them
   are still there. *)
C9_DeleteIsAtomic ==
    [][ \A s \in disk.skills :
          \/ s \in disk'.skills /\ SessionsOf(disk, s.id) \subseteq disk'.sessions
          \/ s \notin disk'.skills /\ SessionsOf(disk, s.id) \cap disk'.sessions = {}
      ]_vars

(* C10: log_session checks no skill id: whether or not a skill row with the given id
   exists, when the storage does not fail it adds exactly one session row carrying the
   given skill_id, duration_minutes, notes and date, reports no error and leaves the
   skills table and the existing session rows unchanged. *)
C10_LogSessionChecksNoSkillId ==
    [][ (last'.op = "log_session" /\ ~last'.failed /\ handle = "ready") =>
        LET given == last'.args[1]
            row == PracticeSession(last'.id, given.skill_id, given.duration_minutes,
                                   given.notes, given.date)
        IN  /\ out'.diag = "" /\ last'.raised = ""
            /\ row \notin db.sessions
            /\ db'.sessions = db.sessions \cup {row}
            /\ db'.skills = db.skills
            /\ disk' = db'
      ]_vars

\* a session has just been logged for an id no skill row carries, other skills existing
C10_Witness ==
    /\ Succeeded(last, out, "log_session")
    /\ db.skills # {}
    /\ last.args[1].skill_id \notin SkillIds(db)
    /\ \E x \in db.sessions : x.id = last.id /\ x.skill_id = last.args[1].skill_id

====
